---- MODULE Spec2Model ----
(***************************************************************************)
(* Verification model of the dataset SDK:                                  *)
(*   - ImageDataset / TextDataset  download and split                      *)
(*       (volcengine_ml_platform/datasets/image_dataset.py,                *)
(*        text_dataset.py; the two classes have the same split body),      *)
(*   - ImageDataset.parse_image_manifest (URL -> bucket, key),             *)
(*   - TorchTOSDataset (ml_platform_sdk/io/tos_files_io.py).               *)
(***************************************************************************)
EXTENDS Integers, Naturals, Sequences, FiniteSets, TLC

(***************************************************************************)
(* Bounds of the model.                                                    *)
(***************************************************************************)
\* ratios fed to split are the Python float literals k/RatioDen, k \in 0..RatioDen
RatioDen == 10
\* largest data_count the partition-size arithmetic is applied to on its own
MaxCountN == 10
\* width of the fixed-point fraction that holds exact intermediate values
FracBits == 64

(***************************************************************************)
(* Python float arithmetic (IEEE-754 binary64, round to nearest even) as   *)
(* used by  math.floor(line_count * (1 - ratio)).                          *)
(* A non-negative value is a sequence of Width bits, most significant      *)
(* first: bit i weighs 2^(IntBits - i), so bits 1..IntBits are the integer *)
(* part and the FracBits bits after them the fraction.                     *)
(***************************************************************************)
\* significand width of a Python float
MantBits == 53
\* bits of the integer part: line counts stay below 2^IntBits
IntBits == 8

Width == IntBits + FracBits

\* a bit vector as an explicit sequence
Bits(f) == f \o <<>>

ZeroBits == Bits([i \in 1..Width |-> 0])

\* float(n) for an integer 0 <= n < 2^IntBits
IntToFloat(n) ==
    Bits([i \in 1..Width |->
            IF i <= IntBits THEN (n \div (2 ^ (IntBits - i))) % 2 ELSE 0])

\* 2^e mod q by repeated squaring
RECURSIVE Pow2Mod(_, _)
Pow2Mod(e, q) ==
    IF e = 0 THEN 1 % q
    ELSE LET h == Pow2Mod(e \div 2, q)
         IN  (((h * h) % q) * (IF e % 2 = 1 THEN 2 ELSE 1)) % q

\* position of the first 1 (Width + 1 when there is none)
FirstOne(v) ==
    IF \E i \in 1..Width : v[i] = 1
    THEN CHOOSE i \in 1..Width : v[i] = 1 /\ \A j \in 1..(i - 1) : v[j] = 0
    ELSE Width + 1

\* position of the last 1 (0 when there is none)
LastOne(v) ==
    IF \E i \in 1..Width : v[i] = 1
    THEN CHOOSE i \in 1..Width : v[i] = 1 /\ \A j \in (i + 1)..Width : v[j] = 0
    ELSE 0

\* add one unit in the last kept place `keep`
AddUlp(v, keep) ==
    LET j == CHOOSE j \in 0..keep :
                 /\ j > 0 => v[j] = 0
                 /\ \A m \in (j + 1)..keep : v[m] = 1
    IN  Bits([i \in 1..Width |->
                IF i < j THEN v[i] ELSE IF i = j THEN 1 ELSE 0])

\* round an exact value to the nearest float, ties to even; sticky says that
\* the exact value has further non-zero bits below the last bit of v
RoundDouble(v, sticky) ==
    LET z    == FirstOne(v)
        keep == z + MantBits - 1
    IN  IF keep >= Width
        THEN v
        ELSE LET rest == sticky \/ LastOne(v) > keep + 1
                 cut  == Bits([i \in 1..Width |-> IF i <= keep THEN v[i] ELSE 0])
             IN  IF v[keep + 1] = 1 /\ (rest \/ v[keep] = 1)
                 THEN AddUlp(cut, keep)
                 ELSE cut

\* the Python float literal p/q, 0 <= p <= q: the float nearest to p/q,
\* its fraction bits produced by binary long division
FloatLiteral(p, q) ==
    IF p = q THEN IntToFloat(1)
    ELSE RoundDouble(
            Bits([i \in 1..Width |->
                    IF i <= IntBits THEN 0
                    ELSE (2 * ((p * Pow2Mod(i - IntBits - 1, q)) % q)) \div q]),
            (p * Pow2Mod(FracBits, q)) % q # 0)

\* 1 - x for a float x in [0, 1]
OneMinus(x) ==
    IF x[IntBits] = 1 THEN ZeroBits
    ELSE LET l == LastOne(x)
         IN  IF l = 0 THEN IntToFloat(1)
             ELSE RoundDouble(
                     Bits([i \in 1..Width |->
                             IF i <= IntBits THEN 0
                             ELSE IF i < l THEN 1 - x[i] ELSE x[i]]),
                     FALSE)

\* exact sum of two bit vectors (carry look-ahead)
AddBits(a, b) ==
    LET carry(i) == \E j \in (i + 1)..Width :
                        /\ a[j] = 1 /\ b[j] = 1
                        /\ \A m \in (i + 1)..(j - 1) : a[m] + b[m] = 1
    IN  Bits([i \in 1..Width |->
                (a[i] + b[i] + (IF carry(i) THEN 1 ELSE 0)) % 2])

\* x * 2^s
ShiftLeft(x, s) ==
    Bits([i \in 1..Width |-> IF i + s <= Width THEN x[i + s] ELSE 0])

\* exact n * x by shift and add over the bits of n
RECURSIVE MulBits(_, _, _)
MulBits(n, x, s) ==
    IF n = 0 THEN ZeroBits
    ELSE LET rest == MulBits(n \div 2, x, s + 1)
         IN  IF n % 2 = 1 THEN AddBits(ShiftLeft(x, s), rest) ELSE rest

\* line_count * f: the int is converted to float, the product is rounded
IntTimesFloat(n, x) == RoundDouble(MulBits(n, x, 0), FALSE)

\* the integer part of a non-negative float
RECURSIVE IntPart(_, _)
IntPart(x, i) ==
    IF i = 0 THEN 0 ELSE x[i] * (2 ^ (IntBits - i)) + IntPart(x, i - 1)

MathFloor(x) == IntPart(x, IntBits)

\* math.floor(line_count * (1 - ratio)), ratio the float literal num/RatioDen
TestCount(line_count, num) ==
    MathFloor(IntTimesFloat(line_count, OneMinus(FloatLiteral(num, RatioDen))))

\* TestCount tabulated over the line counts and ratios of the model
TestCountTable ==
    Bits([n \in 1..(MaxCountN + 1) |->
            Bits([k \in 1..(RatioDen + 1) |-> TestCount(n - 1, k - 1)])])

FloorCount(line_count, num) == TestCountTable[line_count + 1][num + 1]

(***************************************************************************)
(* Inputs of the dataset facade.                                           *)
(***************************************************************************)
\* most records a remote dataset holds
MaxN == 3
\* most dataset objects alive (two are built by the user, split builds two more)
MaxObjs == 6
\* most facade operations in one run
MaxOps == 3

\* local directories; DefaultDir is the default local_path of download
Dirs == {"d1", "d2", "d3"}
DefaultDir == "d1"

\* random_state values passed to split
Seeds == {0, 1}

\* ratio values passed to split, as numerators over RatioDen: 0.0, about one
\* half, and 1.0 (for at most MaxN records the default 0.8 selects the same
\* empty test set as 1.0; SpecCount below covers every ratio k/RatioDen)
SplitRatios == {0, RatioDen \div 2, RatioDen}

\* limit values passed to download (-1 is the default: no limit)
Limits == {-1, 1}

NoFile == <<"no file">>

(***************************************************************************)
(* Manifest lines.  A line is json text: the record it encodes and the     *)
(* way it is formatted ("remote": as the remote manifest wrote it,         *)
(* "dump": as json.dump writes it).                                        *)
(***************************************************************************)
JsonLoads(line) == line.rec

JsonDump(value) == [rec |-> value, fmt |-> "dump"]

RemoteLine(r) == [rec |-> r, fmt |-> "remote"]

\* the records of a manifest file, in file order
Records(lines) == [i \in 1..Len(lines) |-> JsonLoads(lines[i])] \o <<>>

(***************************************************************************)
(* _Dataset, the base class of ImageDataset and TextDataset.               *)
(***************************************************************************)
\* _Dataset(local_path = ...): not materialized yet
NewDataset(local_path) ==
    [local_path |-> local_path, created |-> FALSE, data_count |-> 0]

\* _create_manifest_dataset(manifest_keyword, limit): the number of records
\* the bulk download materializes out of `remote` remote records
Materialized(remote, limit) ==
    IF limit = -1 \/ remote <= limit THEN remote ELSE limit

\* the limit download hands to _create_manifest_dataset: the call passes
\* manifest_keyword only, so the callee's default (no limit) applies
PassedLimit(limit) == -1

(***************************************************************************)
(* numpy's global generator.  Its state is the seed it was last seeded     *)
(* with and the draws consumed since; an unseeded generator starts from    *)
(* OS entropy.  What a draw returns is a function of the state before it,  *)
(* the population and the sample size: gen records that function as far   *)
(* as it has been used.                                                    *)
(***************************************************************************)
Unseeded == [seed |-> -1, consumed |-> <<>>]

\* (variant: the generator is left as the previous draw left it)
NoSeedBeforeDraw(state, random_state) == state

\* np.random.seed(random_state), as split calls it before drawing
SeedBeforeDraw(state, random_state) == [seed |-> random_state, consumed |-> <<>>]

\* the generator state after np.random.choice(n, k, replace = False)
AfterChoice(state, n, k) ==
    [state EXCEPT !.consumed = Append(@, <<n, k>>)]

\* the samples np.random.choice(n, k, replace = False) can return: k distinct
\* indices below n (the empty sample for k = 0, also of an empty population)
Samples(n, k) == {S \in SUBSET (0..(n - 1)) : Cardinality(S) = k}

(***************************************************************************)
(* split: the pass over the source manifest.                               *)
(***************************************************************************)
\* positions (from 0) of the lines routed to the test / train manifest
TestIndices(lines, test_index_set) ==
    {i \in 0..(Len(lines) - 1) : i \in test_index_set}

TrainIndices(lines, test_index_set) ==
    {i \in 0..(Len(lines) - 1) : i \notin test_index_set}

\* (variant: the else branch is taken for every line, so the train manifest
\* receives the test lines too)
RECURSIVE RoutedNoElse(_, _, _, _)
RoutedNoElse(lines, test_index_set, toTest, index) ==
    IF index >= Len(lines) THEN <<>>
    ELSE LET here == IF (index \in test_index_set) = toTest \/ ~toTest
                     THEN <<JsonDump(JsonLoads(lines[index + 1]))>>
                     ELSE <<>>
         IN  here \o RoutedNoElse(lines, test_index_set, toTest, index + 1)

\* (variant: each line is put in front of the lines written before it)
RECURSIVE RoutedPrepending(_, _, _, _)
RoutedPrepending(lines, test_index_set, toTest, index) ==
    IF index >= Len(lines) THEN <<>>
    ELSE LET here == IF (index \in test_index_set) = toTest
                     THEN <<JsonDump(JsonLoads(lines[index + 1]))>>
                     ELSE <<>>
         IN  RoutedPrepending(lines, test_index_set, toTest, index + 1) \o here

\* the lines json.dump appends to one destination manifest, in loop order
RECURSIVE Routed(_, _, _, _)
Routed(lines, test_index_set, toTest, index) ==
    IF index >= Len(lines) THEN <<>>
    ELSE LET here == IF (index \in test_index_set) = toTest
                     THEN <<JsonDump(JsonLoads(lines[index + 1]))>>
                     ELSE <<>>
         IN  here \o Routed(lines, test_index_set, toTest, index + 1)

\* dataset_copy_file for every line routed to destination_dir
CopiedFiles(lines, indices, destination_dir) ==
    {<<destination_dir, JsonLoads(lines[i + 1])>> : i \in indices}

\* (variant: os.makedirs runs before the created check)
DirsMadeFirst(created, dirs, training_dir, testing_dir) ==
    dirs \cup {testing_dir, training_dir}

\* the directories that exist once split has passed (or raised at) its
\* created check
DirsAfterCheck(created, dirs, training_dir, testing_dir) ==
    IF created THEN dirs \cup {testing_dir, training_dir} ELSE dirs

\* the data_count split gives the test dataset, and the train dataset
TestDataCount(line_count, num) == FloorCount(line_count, num)

TrainDataCount(line_count, num) == line_count - TestDataCount(line_count, num)

(***************************************************************************)
(* parse_image_manifest.  A string is a sequence of characters.            *)
(***************************************************************************)
\* longest key of a generated URL
MaxKeyLen == 2
\* most lines of a manifest given to parse_image_manifest
MaxLines == 2

StartsWith(s, sep) ==
    Len(sep) <= Len(s) /\ SubSeq(s, 1, Len(sep)) = sep

\* str.split(sep), sep not empty: the pieces between the occurrences of sep,
\* found from the left and not overlapping
RECURSIVE StrSplit(_, _, _)
StrSplit(s, sep, piece) ==
    IF s = <<>> THEN <<piece>>
    ELSE IF StartsWith(s, sep)
         THEN <<piece>> \o StrSplit(SubSeq(s, Len(sep) + 1, Len(s)), sep, <<>>)
         ELSE StrSplit(Tail(s), sep, Append(piece, Head(s)))

\* url.split("//")[1].split("/")[0]
ParseBucket(url) == StrSplit(StrSplit(url, <<"/", "/">>, <<>>)[2], <<"/">>, <<>>)[1]

\* url.split(f"{bucket}/")[1]
ParseKey(url, bucket) == StrSplit(url, bucket \o <<"/">>, <<>>)[2]

\* the ImageURL of a manifest line
UrlOf(scheme, bucket, key) == scheme \o <<":", "/", "/">> \o bucket \o <<"/">> \o key

\* the loop of parse_image_manifest: one bucket, key and annotation per line
\* (the annotation of line i is i)
ParseImageManifest(urls) ==
    [buckets     |-> [i \in 1..Len(urls) |-> ParseBucket(urls[i])] \o <<>>,
     keys        |-> [i \in 1..Len(urls) |->
                        ParseKey(urls[i], ParseBucket(urls[i]))] \o <<>>,
     annotations |-> [i \in 1..Len(urls) |-> i] \o <<>>]

NotParsed ==
    [done |-> FALSE,
     info |-> [buckets |-> <<>>, keys |-> <<>>, annotations |-> <<>>]]

\* the URLs of the model: scheme://bucket/key
Schemes == {<<"s">>, <<"t", "o", "s">>}
Buckets == {<<"b">>, <<"b", "b">>, <<"s", ":">>}
KeyChars == {"a", "b", "/"}
Keys == UNION {[1..n -> KeyChars] : n \in 1..MaxKeyLen}

ExampleUrl ==
    [scheme |-> <<"t", "o", "s">>,
     bucket |-> <<"m", "y", "-", "b", "u", "c", "k", "e", "t">>,
     key    |-> <<"p", "a", "t", "h", "/", "t", "o", "/",
                  "i", "m", "g", ".", "j", "p", "g">>]

UrlParts == [scheme : Schemes, bucket : Buckets, key : Keys] \cup {ExampleUrl}

(***************************************************************************)
(* TorchTOSDataset.  Context 0 is the process that builds the dataset;     *)
(* the others are data-loading worker processes, each started with a copy  *)
(* of the dataset object as it is in context 0 at that moment.             *)
(***************************************************************************)
\* most worker contexts
MaxWorkers == 2
\* longest buckets / keys / annotations sequence
MaxLen == 2
\* most calls of set_dataset_indices in one run
MaxSets == 1

Contexts == 0..MaxWorkers

NoDataset ==
    [live |-> FALSE, buckets |-> <<>>, keys |-> <<>>, annotations |-> <<>>,
     tos_client |-> 0]

\* a buckets / keys / annotations sequence of n entries: entry i belongs to
\* record i
Column(n) == [i \in 1..n |-> i] \o <<>>

\* the two asserts of __init__
InitAsserts(buckets, keys, annotations) ==
    Len(buckets) = Len(keys) /\ Len(buckets) = Len(annotations)

\* set_dataset_indices
SetIndices(d, buckets, keys, annotations) ==
    [d EXCEPT !.buckets = buckets, !.keys = keys, !.annotations = annotations]

\* the object __init__ leaves: no tos_client attribute yet (0)
Constructed(buckets, keys, annotations) ==
    SetIndices([live |-> TRUE, buckets |-> <<>>, keys |-> <<>>,
                annotations |-> <<>>, tos_client |-> 0],
               buckets, keys, annotations)

\* hasattr(self, "tos_client")
HasClient(d) == d.tos_client # 0

(***************************************************************************)
(* State.                                                                  *)
(***************************************************************************)
VARIABLES
    objs,               \* the dataset objects, in order of construction
    manifest,           \* per directory: the lines of local_metadata.manifest
    dir_exists,         \* the directories that exist
    payload,            \* payload files present: <<directory, record>>
    np_random_state,    \* state of numpy's global generator
    gen,                \* the generator's draws so far: [state, n, k, out]
    draws,              \* every split's [seed, n, num, test, at] so far
    last,               \* the last facade operation and its outcome
    nops,               \* facade operations so far
    cnt_in,             \* the (line_count, ratio) the size arithmetic is applied to
    cnt_out,            \* its result: test and train data_count
    pm_in,              \* the URLs of the manifest given to parse_image_manifest
    pm_out,             \* the manifest_info it returned
    ds,                 \* per execution context: its copy of the TorchTOSDataset
    worker_started,     \* the worker contexts started so far
    clients,            \* per TOS client created so far: the context that made it
    used_by,            \* per TOS client: the contexts that fetched through it
    torch_last,         \* the last TorchTOSDataset operation and its outcome
    nsets               \* calls of set_dataset_indices so far

facade_vars == <<objs, manifest, dir_exists, payload, np_random_state, gen,
                 draws, last, nops>>
count_vars == <<cnt_in, cnt_out>>
parse_vars == <<pm_in, pm_out>>
torch_vars == <<ds, worker_started, clients, used_by, torch_last, nsets>>
other_vars == <<count_vars, parse_vars, torch_vars>>
vars == <<facade_vars, count_vars, parse_vars, torch_vars>>

NoResult == [done |-> FALSE, test |-> 0, train |-> 0]

NoOp == [op |-> "none"]

InitFacade ==
    /\ objs = <<NewDataset(DefaultDir), NewDataset(DefaultDir)>>
    /\ manifest = [d \in Dirs |-> NoFile]
    /\ dir_exists = {}
    /\ payload = {}
    /\ np_random_state = Unseeded
    /\ gen = {}
    /\ draws = {}
    /\ last = NoOp
    /\ nops = 0

InitCountIdle ==
    /\ cnt_in = [n |-> 0, num |-> 0]
    /\ cnt_out = NoResult

InitParseIdle ==
    /\ pm_in = <<>>
    /\ pm_out = NotParsed

InitTorch ==
    /\ ds = [c \in Contexts |-> NoDataset]
    /\ worker_started = {}
    /\ clients = <<>>
    /\ used_by = <<>>
    /\ torch_last = NoOp
    /\ nsets = 0

Init == InitFacade /\ InitCountIdle /\ InitParseIdle /\ InitTorch

(***************************************************************************)
(* download(local_path, limit).  local_path "" keeps the object's path.    *)
(***************************************************************************)
Download(o, local_path, limit, remote) ==
    LET path == IF local_path # "" THEN local_path ELSE objs[o].local_path
        m    == Materialized(remote, PassedLimit(limit))
    IN  /\ nops < MaxOps
        /\ objs' = [objs EXCEPT ![o] =
                        [local_path |-> path, created |-> TRUE, data_count |-> m]]
        /\ manifest' = [manifest EXCEPT ![path] =
                            [i \in 1..m |-> RemoteLine(i)] \o <<>>]
        /\ dir_exists' = dir_exists \cup {path}
        /\ payload' = payload \cup {<<path, r>> : r \in 1..m}
        /\ last' = [op |-> "download", src |-> o, limit |-> limit]
        /\ nops' = nops + 1
        /\ UNCHANGED <<np_random_state, gen, draws>>

(***************************************************************************)
(* split(training_dir, testing_dir, ratio, random_state) on a dataset that *)
(* has not been created: raises before anything else.                      *)
(***************************************************************************)
SplitNotCreated(o, training_dir, testing_dir, num, random_state) ==
    /\ nops < MaxOps
    /\ ~objs[o].created
    /\ dir_exists' = DirsAfterCheck(objs[o].created, dir_exists,
                                    training_dir, testing_dir)
    /\ last' = [op |-> "split", src |-> o, err |-> "not created"]
    /\ nops' = nops + 1
    /\ UNCHANGED <<objs, manifest, payload, np_random_state, gen, draws>>

(***************************************************************************)
(* split on a created dataset.  The destination directories are distinct   *)
(* from each other and from the source directory.                          *)
(***************************************************************************)
Split(o, training_dir, testing_dir, num, random_state) ==
    LET line_count == objs[o].data_count
        k          == FloorCount(line_count, num)
        before     == SeedBeforeDraw(np_random_state, random_state)
        lines      == manifest[objs[o].local_path]
    IN  /\ nops < MaxOps
        /\ Len(objs) + 2 <= MaxObjs
        /\ objs[o].created
        /\ training_dir # testing_dir
        /\ objs[o].local_path \notin {training_dir, testing_dir}
        /\ \E test_index_set \in Samples(line_count, k) :
            /\ \A g \in gen :
                (g.state = before /\ g.n = line_count /\ g.k = k)
                    => g.out = test_index_set
            /\ gen' = gen \cup {[state |-> before, n |-> line_count, k |-> k,
                                 out |-> test_index_set]}
            /\ np_random_state' = AfterChoice(before, line_count, k)
            /\ draws' = draws \cup {[seed |-> random_state, n |-> line_count,
                                     num |-> num, test |-> test_index_set,
                                     at |-> nops]}
            /\ dir_exists' = DirsAfterCheck(objs[o].created, dir_exists,
                                            training_dir, testing_dir)
            /\ objs' = objs \o
                 <<[local_path |-> training_dir, created |-> TRUE,
                    data_count |-> TrainDataCount(line_count, num)],
                   [local_path |-> testing_dir, created |-> TRUE,
                    data_count |-> TestDataCount(line_count, num)]>>
            /\ manifest' = [manifest EXCEPT
                    ![testing_dir]  = Routed(lines, test_index_set, TRUE, 0),
                    ![training_dir] = Routed(lines, test_index_set, FALSE, 0)]
            /\ payload' = payload
                    \cup CopiedFiles(lines, TestIndices(lines, test_index_set),
                                     testing_dir)
                    \cup CopiedFiles(lines, TrainIndices(lines, test_index_set),
                                     training_dir)
            /\ last' = [op |-> "split", src |-> o, err |-> "none",
                        train |-> Len(objs) + 1, test |-> Len(objs) + 2,
                        n |-> line_count, num |-> num, seed |-> random_state,
                        source |-> lines,
                        test_index_set |-> test_index_set]
        /\ nops' = nops + 1

\* download is called on the two datasets the user built; split on any dataset
DoDownload ==
    /\ nops < MaxOps
    /\ \E o \in 1..2, p \in {"", DefaultDir}, l \in Limits, r \in 0..MaxN :
          Download(o, p, l, r)
    /\ UNCHANGED other_vars

DoSplitNotCreated ==
    /\ nops < MaxOps
    /\ \E o \in 1..Len(objs) :
          /\ ~objs[o].created
          /\ \E tr \in Dirs, te \in Dirs, num \in SplitRatios, s \in Seeds :
                SplitNotCreated(o, tr, te, num, s)
    /\ UNCHANGED other_vars

DoSplit ==
    /\ nops < MaxOps
    /\ Len(objs) + 2 <= MaxObjs
    /\ \E o \in 1..Len(objs) :
          /\ objs[o].created
          /\ \E tr \in Dirs, te \in Dirs, num \in SplitRatios, s \in Seeds :
                Split(o, tr, te, num, s)
    /\ UNCHANGED other_vars

Next == DoDownload \/ DoSplitNotCreated \/ DoSplit

Spec == Init /\ [][Next]_vars

(***************************************************************************)
(* Properties of download and split.                                       *)
(***************************************************************************)
SplitDone == last.op = "split" /\ last.err = "none"

TrainDir == objs[last.train].local_path
TestDir == objs[last.test].local_path

\* positions of the source manifest whose record is in the manifest of dir
WrittenTo(dir) ==
    {i \in 0..(Len(last.source) - 1) :
        \E j \in 1..Len(manifest[dir]) :
            JsonLoads(manifest[dir][j]) = JsonLoads(last.source[i + 1])}

\* a is a subsequence of b
RECURSIVE IsSubsequence(_, _)
IsSubsequence(a, b) ==
    IF a = <<>> THEN TRUE
    ELSE IF b = <<>> THEN FALSE
    ELSE IF Head(a) = Head(b) THEN IsSubsequence(Tail(a), Tail(b))
    ELSE IsSubsequence(a, Tail(b))

C3_DataCountIsPartitionSize ==
    SplitDone =>
        /\ objs[last.train].created /\ objs[last.test].created
        /\ objs[last.train].data_count = Len(manifest[TrainDir])
        /\ objs[last.test].data_count = Len(manifest[TestDir])

\* C5: two runs of split with the same random_state, data_count and ratio
\* select the same test index set, whatever ran before them
C5_SameSeedSameTestSet ==
    \A a \in draws, b \in draws :
        (a.seed = b.seed /\ a.n = b.n /\ a.num = b.num) => a.test = b.test

\* two runs with the same seed, data_count and ratio, drawing a proper sample,
\* the second one starting from the generator state the first one left
C5_Witness ==
    \E a \in draws, b \in draws :
        /\ a.at < b.at
        /\ a.seed = b.seed /\ a.n = b.n /\ a.num = b.num
        /\ a.test # {} /\ Cardinality(a.test) < a.n

C7_SplitOnUncreatedHasNoEffect ==
    [][(last'.op = "split" /\ last'.err = "not created" /\ nops' = nops + 1)
          => UNCHANGED <<objs, manifest, dir_exists, payload>>]_vars

\* a split has raised on a dataset that is not created, after a download
\* made directories and files that it could have touched
C7_Witness ==
    /\ last.op = "split" /\ last.err = "not created"
    /\ ~objs[last.src].created
    /\ dir_exists # {}

\* C10: after download with a limit, the dataset is created and its
\* data_count does not exceed the limit
C10_DownloadHonoursLimit ==
    (last.op = "download" /\ last.limit # -1) =>
        /\ objs[last.src].created
        /\ objs[last.src].data_count <= last.limit

(***************************************************************************)
(* The partition-size arithmetic on its own.                               *)
(***************************************************************************)
InitCount ==
    /\ InitFacade /\ InitParseIdle /\ InitTorch
    /\ cnt_in \in [n : 0..MaxCountN, num : 0..RatioDen]
    /\ cnt_out = NoResult

\* the two data_count assignments of split
ApplyCount ==
    /\ ~cnt_out.done
    /\ cnt_out' = [done  |-> TRUE,
                   test  |-> TestDataCount(cnt_in.n, cnt_in.num),
                   train |-> TrainDataCount(cnt_in.n, cnt_in.num)]
    /\ UNCHANGED <<cnt_in, facade_vars, parse_vars, torch_vars>>

NextCount == ApplyCount

SpecCount == InitCount /\ [][NextCount]_vars

\* C4: for 10 records and ratio 0.8 the test partition has 2 records and the
\* train partition 8
C4_TenRecordsSplitTwoEight ==
    (cnt_out.done /\ cnt_in.n = 10 /\ cnt_in.num * 10 = 8 * RatioDen)
        => (cnt_out.test = 2 /\ cnt_out.train = 8)
(***************************************************************************)
(* parse_image_manifest on a manifest of generated URLs.                   *)
(***************************************************************************)
InitParse ==
    /\ InitFacade /\ InitCountIdle /\ InitTorch
    /\ pm_in \in UNION {[1..n -> UrlParts] : n \in 1..MaxLines}
    /\ pm_out = NotParsed

ParseManifest ==
    /\ ~pm_out.done
    /\ pm_out' = [done |-> TRUE,
                  info |-> ParseImageManifest(
                    [i \in 1..Len(pm_in) |->
                        UrlOf(pm_in[i].scheme, pm_in[i].bucket, pm_in[i].key)])]
    /\ UNCHANGED <<pm_in, facade_vars, count_vars, torch_vars>>

NextParse == ParseManifest

SpecParse == InitParse /\ [][NextParse]_vars

\* C8: for every URL scheme://bucket/key the parsed bucket is the segment
\* after "//" and the parsed key is everything after that segment's "/"
C8_ParseYieldsBucketAndKey ==
    pm_out.done =>
        \A i \in 1..Len(pm_in) :
            /\ pm_out.info.buckets[i] = pm_in[i].bucket
            /\ pm_out.info.keys[i] = pm_in[i].key

(***************************************************************************)
(* TorchTOSDataset in the building process and its worker processes.       *)
(***************************************************************************)
Lengths == 0..MaxLen

\* TorchTOSDataset(manifest_info) in context 0
Construct(nb, nk, na) ==
    /\ ~ds[0].live
    /\ IF InitAsserts(Column(nb), Column(nk), Column(na))
       THEN /\ ds' = [ds EXCEPT ![0] =
                        Constructed(Column(nb), Column(nk), Column(na))]
            /\ torch_last' = [op |-> "init", ctx |-> 0, err |-> "none"]
       ELSE /\ ds' = ds
            /\ torch_last' = [op |-> "init", ctx |-> 0, err |-> "AssertionError"]
    /\ UNCHANGED <<worker_started, clients, used_by, nsets>>

\* set_dataset_indices(buckets, keys, annotations) in context c
SetDatasetIndices(c, nb, nk, na) ==
    /\ ds[c].live
    /\ nsets < MaxSets
    /\ ds' = [ds EXCEPT ![c] = SetIndices(@, Column(nb), Column(nk), Column(na))]
    /\ torch_last' = [op |-> "set_dataset_indices", ctx |-> c, err |-> "none"]
    /\ nsets' = nsets + 1
    /\ UNCHANGED <<worker_started, clients, used_by>>

\* len(dataset) in context c
LenOp(c) ==
    /\ ds[c].live
    /\ torch_last' = [op |-> "len", ctx |-> c, err |-> "none",
                      result |-> Len(ds[c].buckets)]
    /\ UNCHANGED <<ds, worker_started, clients, used_by, nsets>>

\* a worker process starts with a copy of the dataset object of context 0
StartWorker(c) ==
    /\ c \in Contexts \ {0}
    /\ c \notin worker_started
    /\ ds[0].live
    /\ worker_started' = worker_started \cup {c}
    /\ ds' = [ds EXCEPT ![c] = ds[0]]
    /\ torch_last' = [op |-> "start", ctx |-> c, err |-> "none"]
    /\ UNCHANGED <<clients, used_by, nsets>>

\* dataset[index] in context c
GetItem(c, index) ==
    LET d       == ds[c]
        fresh   == ~HasClient(d)
        client  == IF fresh THEN Len(clients) + 1 ELSE d.tos_client
        made    == IF fresh THEN Append(clients, c) ELSE clients
        users   == IF fresh THEN Append(used_by, {}) ELSE used_by
        inRange == /\ index < Len(d.buckets)
                   /\ index < Len(d.keys)
                   /\ index < Len(d.annotations)
    IN  /\ ds[c].live
        /\ ds' = [ds EXCEPT ![c].tos_client = client]
        /\ clients' = made
        /\ IF inRange
           THEN /\ used_by' = [users EXCEPT ![client] = @ \cup {c}]
                /\ torch_last' = [op |-> "getitem", ctx |-> c, err |-> "none",
                                  client |-> client,
                                  data |-> <<d.buckets[index + 1],
                                             d.keys[index + 1]>>,
                                  label |-> d.annotations[index + 1]]
           ELSE /\ used_by' = users
                /\ torch_last' = [op |-> "getitem", ctx |-> c,
                                  err |-> "IndexError"]
        /\ UNCHANGED <<worker_started, nsets>>

DoConstruct ==
    /\ \E nb \in Lengths, nk \in Lengths, na \in Lengths : Construct(nb, nk, na)
    /\ UNCHANGED <<facade_vars, count_vars, parse_vars>>

DoSetDatasetIndices ==
    /\ \E c \in Contexts, nb \in Lengths, nk \in Lengths, na \in Lengths :
          SetDatasetIndices(c, nb, nk, na)
    /\ UNCHANGED <<facade_vars, count_vars, parse_vars>>

DoLen ==
    /\ \E c \in Contexts : LenOp(c)
    /\ UNCHANGED <<facade_vars, count_vars, parse_vars>>

DoStartWorker ==
    /\ \E c \in Contexts : StartWorker(c)
    /\ UNCHANGED <<facade_vars, count_vars, parse_vars>>

DoGetItem ==
    /\ \E c \in Contexts, index \in 0..MaxLen : GetItem(c, index)
    /\ UNCHANGED <<facade_vars, count_vars, parse_vars>>

NextTorch ==
    DoConstruct \/ DoSetDatasetIndices \/ DoLen \/ DoStartWorker \/ DoGetItem

SpecTorch == Init /\ [][NextTorch]_vars

\* C2: every context fetches through a client it created itself: no client
\* is used by a context other than the one that created it
C2_EachContextOwnsItsClient ==
    \A cl \in 1..Len(clients) : used_by[cl] \subseteq {clients[cl]}

\* C9: in every context the dataset's buckets, keys and annotations have the
\* same length
C9_ParallelSequencesSameLength ==
    \A c \in Contexts :
        ds[c].live =>
            /\ Len(ds[c].buckets) = Len(ds[c].keys)
            /\ Len(ds[c].buckets) = Len(ds[c].annotations)
====
